---- MODULE Spec2Model ----
(***************************************************************************)
(* The survey dashboard of dineth.py: the synthetic data generator         *)
(* (generate_survey_data), the process-wide DataFrame df_global, and the   *)
(* Dash callback update_dashboard, which appends one generated record,     *)
(* filters, projects, jitters and aggregates on every timer tick or        *)
(* filter change.                                                          *)
(*                                                                         *)
(* Strings: the source writes its bucket names with an en dash             *)
(* ("1-2 hours" stands for the source's 1<en dash>2 hours).                *)
(* Numbers: scatter coordinates are in tenths (0.5 is 5, 0.3 is 3).        *)
(* Latent scores are sampled on the integers: the thresholds 2, 3, 4, 6, 8 *)
(* of the source are integers, so every class of real scores (bucket,      *)
(* regime) has an integer member, and every boundary is an integer.        *)
(***************************************************************************)
EXTENDS Integers, Sequences, FiniteSets, TLC

VARIABLES
    \* one call of generate_survey_data(n)
    n, i, new_data, hidden_sm_score, gen_pc, gen_ret,
    \* the dashboard process
    df_global, options, program_filter, calls, seed_n,
    \* the last call of update_dashboard: its argument, its local, its outputs
    selected_program, filtered_df, fig1, fig2, fig3, live_stats,
    \* two calls of update_dashboard on the threads of the development server:
    \* the frames allocated, the frame df_global is bound to, each call's locals
    frames, df_global_ref, call

gen_vars == <<n, i, new_data, hidden_sm_score, gen_pc, gen_ret>>
dash_vars == <<df_global, options, program_filter, calls, seed_n,
               selected_program, filtered_df, fig1, fig2, fig3, live_stats>>
conc_vars == <<frames, df_global_ref, call>>
vars == <<gen_vars, dash_vars, conc_vars>>

Range(s) == {s[k] : k \in DOMAIN s}

----------------------------------------------------------------------------
(* Bounds *)

\* generate_survey_data(n) is called with n in 0..MaxN
MaxN == 1
\* latent scores are drawn within ScoreSpan of the mean
ScoreSpan == 6
\* the seed of df_global has 1..SeedLen records (the source seeds 100, which the
\* model stands for with seed_n)
SeedLen == 1
\* update_dashboard is called at most MaxRefresh times
MaxRefresh == 2

----------------------------------------------------------------------------
(* 1. DATA GENERATION *)

programs == <<"Data science", "Fashion design", "Arts and Interior Architecture",
              "Psychology & Counselling">>

\* np.random.normal(5, 2.5): the mean of the latent score
ScoreMean == 5
Scores == (ScoreMean - ScoreSpan)..(ScoreMean + ScoreSpan)

sm_choice(score) ==
    IF score < 2 THEN "Less than 1 hour"
    ELSE IF score < 4 THEN "1-2 hours"
    ELSE IF score < 6 THEN "3-4 hours"
    ELSE IF score < 8 THEN "5-6 hours"
    ELSE "More than 6 hours"

regime_inclusive(score) ==
    IF score >= 6 THEN "heavy"
    ELSE IF score < 3 THEN "light"
    ELSE "average"

\* the branch of the if / elif / else chain a score takes
regime(score) ==
    IF score > 6 THEN "heavy"
    ELSE IF score < 3 THEN "light"
    ELSE "average"

\* the options of each np.random.choice and their weights p (in percent)
distraction_options(r) ==
    CASE r = "heavy" -> [a |-> <<"Often", "Always">>, p |-> <<40, 60>>]
      [] r = "light" -> [a |-> <<"Never", "Rarely">>, p |-> <<30, 70>>]
      [] OTHER -> [a |-> <<"Sometimes", "Often">>, p |-> <<70, 30>>]

impact_options(r) ==
    CASE r = "heavy" -> [a |-> <<"Somewhat Negative", "Strongly Negative">>, p |-> <<40, 60>>]
      [] r = "light" -> [a |-> <<"Strongly Positive", "Somewhat Positive", "Neutral">>,
                         p |-> <<20, 30, 50>>]
      [] OTHER -> [a |-> <<"Neutral", "Somewhat Negative">>, p |-> <<70, 30>>]

study_options_swapped(r) ==
    CASE r = "heavy" -> [a |-> <<"5-7 hours", "8+ hours">>, p |-> <<60, 40>>]
      [] r = "light" -> [a |-> <<"Less than 2 hours", "2-4 hours">>, p |-> <<60, 40>>]
      [] OTHER -> [a |-> <<"2-4 hours", "5-7 hours">>, p |-> <<50, 50>>]

study_options(r) ==
    CASE r = "heavy" -> [a |-> <<"Less than 2 hours", "2-4 hours">>, p |-> <<60, 40>>]
      [] r = "light" -> [a |-> <<"5-7 hours", "8+ hours">>, p |-> <<60, 40>>]
      [] OTHER -> [a |-> <<"2-4 hours", "5-7 hours">>, p |-> <<50, 50>>]

\* np.random.choice(a, p) with the index drawn among K: an option of positive weight
choice(o, K) == {o.a[k] : k \in {j \in DOMAIN o.a : o.p[j] > 0 /\ j \in K}}

\* every index np.random.choice can draw (the longest list has 3 options)
AnyIndex == 1..3

row(program, sm, study_choice, distraction, impact) ==
    [Program_of_Study |-> program,
     Average_Daily_SM_Usage |-> sm,
     Daily_Study_Work_Hours |-> study_choice,
     Distraction_Frequency |-> distraction,
     Productivity_Impact |-> impact]

\* the rows one iteration of the loop can build from a program drawn in P, a score
\* drawn in S and choice indices drawn in K
rows_of(P, S, K) ==
    UNION {UNION {
        {row(program, sm_choice(score), study_choice, distraction, impact) :
            distraction \in choice(distraction_options(regime(score)), K),
            impact \in choice(impact_options(regime(score)), K),
            study_choice \in choice(study_options(regime(score)), K)}
        : program \in P} : score \in S}

CategoricalColumns ==
    {"Program_of_Study", "Average_Daily_SM_Usage", "Daily_Study_Work_Hours",
     "Distraction_Frequency", "Productivity_Impact"}

\* a column of n missing values; a cell is <<v>>, or <<>> for NaN
NaNs(len) == [k \in 1..len |-> <<>>]

\* pd.DataFrame(list of dicts): no rows gives a frame without columns.
\* A frame: its column names, its categorical rows, and the cells of the two
\* numeric columns (<<>> while the frame has no such column).
DataFrame(data) ==
    [columns |-> IF data = <<>> THEN {} ELSE CategoricalColumns,
     rows |-> data, SM_Numeric |-> <<>>, Study_Numeric |-> <<>>]

in_range_inclusive(k, m) == k <= m

\* for i in range(n): i counts the rows built so far
in_range(k, m) == k < m

GenInit ==
    /\ n \in 0..MaxN
    /\ i = 0
    /\ new_data = <<>>
    /\ hidden_sm_score = <<>>
    /\ gen_pc = "loop"
    /\ gen_ret = <<>>

GenIdle ==
    /\ n = 0 /\ i = 0 /\ new_data = <<>> /\ hidden_sm_score = <<>>
    /\ gen_pc = "idle" /\ gen_ret = <<>>

\* one iteration of the loop of generate_survey_data
GenLoop ==
    /\ gen_pc = "loop"
    /\ in_range(i, n)
    /\ \E program \in Range(programs), score \in Scores :
         \E r \in rows_of({program}, {score}, AnyIndex) :
            /\ hidden_sm_score' = <<score>>
            /\ new_data' = Append(new_data, r)
    /\ i' = i + 1
    /\ UNCHANGED <<n, gen_pc, gen_ret, dash_vars, conc_vars>>

\* return pd.DataFrame(new_data)
GenReturn ==
    /\ gen_pc = "loop"
    /\ ~in_range(i, n)
    /\ gen_ret' = <<DataFrame(new_data)>>
    /\ gen_pc' = "done"
    /\ UNCHANGED <<n, i, new_data, hidden_sm_score, dash_vars, conc_vars>>

----------------------------------------------------------------------------
(* Mappings for the scatter plot, in tenths *)

sm_map ==
    ("Less than 1 hour" :> 5) @@ ("1-2 hours" :> 15) @@ ("3-4 hours" :> 35) @@
    ("5-6 hours" :> 55) @@ ("More than 6 hours" :> 70)

study_map ==
    ("Less than 2 hours" :> 10) @@ ("2-4 hours" :> 30) @@ ("5-7 hours" :> 60) @@
    ("8+ hours" :> 90)

\* np.random.uniform(-0.3, 0.3): the two extreme offsets, in tenths
Jitter == {-3, 3}

\* np.random.uniform(-0.3, 0.3, len): the sample of arrays explored, those that sit
\* at one extreme offset throughout
uniform(len) == {[k \in 1..len |-> j] : j \in Jitter}

----------------------------------------------------------------------------
(* DataFrame operations used by update_dashboard *)

NumericColumns == {"SM_Numeric", "Study_Numeric"}

cells(f, col) == IF col \in f.columns THEN f[col] ELSE NaNs(Len(f.rows))

concat_prepend(a, b) ==
    LET cols == a.columns \cup b.columns
    IN  [columns |-> cols,
         rows |-> b.rows \o a.rows,
         SM_Numeric |-> IF "SM_Numeric" \in cols
                        THEN cells(b, "SM_Numeric") \o cells(a, "SM_Numeric") ELSE <<>>,
         Study_Numeric |-> IF "Study_Numeric" \in cols
                           THEN cells(b, "Study_Numeric") \o cells(a, "Study_Numeric")
                           ELSE <<>>]

\* pd.concat([a, b], ignore_index=True): a new frame, the union of the columns,
\* NaN where a frame lacks a column
concat(a, b) ==
    LET cols == a.columns \cup b.columns
    IN  [columns |-> cols,
         rows |-> a.rows \o b.rows,
         SM_Numeric |-> IF "SM_Numeric" \in cols
                        THEN cells(a, "SM_Numeric") \o cells(b, "SM_Numeric") ELSE <<>>,
         Study_Numeric |-> IF "Study_Numeric" \in cols
                           THEN cells(a, "Study_Numeric") \o cells(b, "Study_Numeric")
                           ELSE <<>>]

RECURSIVE matching(_, _, _)
\* the positions from k on whose Program_of_Study equals sel, in order
matching(rows, sel, k) ==
    IF k > Len(rows) THEN <<>>
    ELSE IF rows[k].Program_of_Study = sel
         THEN <<k>> \o matching(rows, sel, k + 1)
         ELSE matching(rows, sel, k + 1)

\* f[f['Program_of_Study'] == sel].copy(): the matching rows with every column of f
boolean_index(f, sel) ==
    LET ix == matching(f.rows, sel, 1)
        pick(col) == IF col \in f.columns THEN [k \in 1..Len(ix) |-> f[col][ix[k]]] ELSE <<>>
    IN  [columns |-> f.columns,
         rows |-> [k \in 1..Len(ix) |-> f.rows[ix[k]]],
         SM_Numeric |-> pick("SM_Numeric"),
         Study_Numeric |-> pick("Study_Numeric")]

\* DataFrame.empty
empty(f) == Len(f.rows) = 0 \/ f.columns = {}

never_falls_back(f) == FALSE

\* if filtered_df.empty: filtered_df = df_global  (the name is bound to the SAME frame)
falls_back(f) == empty(f)

\* Series.map(dict): NaN for a key the dict lacks
map_cell(m, key) == IF key \in DOMAIN m THEN <<m[key]>> ELSE <<>>

\* cell + number: NaN stays NaN
add_cell(c, x) == IF c = <<>> THEN <<>> ELSE <<c[1] + x>>

assign_numeric_cached(f, jx, jy) ==
    LET old(col, k) == IF col \in f.columns THEN f[col][k] ELSE <<>>
        base(col, m, key, k) == IF old(col, k) # <<>> THEN old(col, k) ELSE map_cell(m, key)
    IN  [columns |-> f.columns \cup NumericColumns,
         rows |-> f.rows,
         SM_Numeric |-> [k \in 1..Len(f.rows) |->
             add_cell(base("SM_Numeric", sm_map, f.rows[k].Average_Daily_SM_Usage, k), jx[k])],
         Study_Numeric |-> [k \in 1..Len(f.rows) |->
             add_cell(base("Study_Numeric", study_map, f.rows[k].Daily_Study_Work_Hours, k),
                      jy[k])]]

\* Scatter processing and jitter: both numeric columns are assigned from the maps,
\* then the jitter arrays jx, jy are added
assign_numeric(f, jx, jy) ==
    [columns |-> f.columns \cup NumericColumns,
     rows |-> f.rows,
     SM_Numeric |-> [k \in 1..Len(f.rows) |->
         add_cell(map_cell(sm_map, f.rows[k].Average_Daily_SM_Usage), jx[k])],
     Study_Numeric |-> [k \in 1..Len(f.rows) |->
         add_cell(map_cell(study_map, f.rows[k].Daily_Study_Work_Hours), jy[k])]]

\* px.scatter(filtered_df, x='SM_Numeric', y='Study_Numeric', color='Distraction_Frequency')
scatter(f, sel) ==
    [title |-> <<"Correlation (", sel, ")">>,
     points |-> [k \in 1..Len(f.rows) |->
         [x |-> f.SM_Numeric[k], y |-> f.Study_Numeric[k],
          color |-> f.rows[k].Distraction_Frequency]]]

DistractionLevels == {"Never", "Rarely", "Sometimes", "Often", "Always"}

value_counts_zero_filled(f, col) ==
    [v \in DistractionLevels |-> Cardinality({k \in 1..Len(f.rows) : f.rows[k][col] = v})]

\* Series.value_counts(): a count for each value present (the order of the
\* entries, by falling count, is not modelled)
value_counts(f, col) ==
    [v \in {f.rows[k][col] : k \in 1..Len(f.rows)} |->
        Cardinality({k \in 1..Len(f.rows) : f.rows[k][col] = v})]

\* px.bar(counts, x='Distraction', y='Count')
bar(f) == [title |-> "Distraction Frequency", counts |-> value_counts(f, "Distraction_Frequency")]

\* px.pie(filtered_df, names='Productivity_Impact')
pie(f) == [title |-> "Perceived Impact", slices |-> value_counts(f, "Productivity_Impact")]

digit(d) == CASE d = 0 -> "0" [] d = 1 -> "1" [] d = 2 -> "2" [] d = 3 -> "3" [] d = 4 -> "4"
              [] d = 5 -> "5" [] d = 6 -> "6" [] d = 7 -> "7" [] d = 8 -> "8" [] OTHER -> "9"

RECURSIVE str(_)
\* the decimal digits of a non-negative integer, as the f-string formats it
str(k) == IF k < 10 THEN <<digit(k)>> ELSE str(k \div 10) \o <<digit(k % 10)>>

stats_of_filtered(g, f) == <<"Total Responses: ">> \o str(Len(f.rows))

\* f"Total Responses: {len(df_global)}"
stats(g, f) == <<"Total Responses: ">> \o str(Len(g.rows))

----------------------------------------------------------------------------
(* 2. and 3. The dashboard: the seed, the dropdown, the interval, the callback *)

\* The sample of the generator's draws the dashboard specifications explore for a
\* record: two of the programs, one score of each regime, the first option of every
\* weighted choice.
DashPrograms == {programs[1], programs[2]}
DashScores == {2, 5, 7}
DashIndex == {1}
DashRows == rows_of(DashPrograms, DashScores, DashIndex)

\* generate_survey_data(m), over that sample
generate_survey_data(m) == {DataFrame(d) : d \in [1..m -> DashRows]}

NoFigure == <<>>

\* df_global = generate_survey_data(SeedSize); options from the programs of the seed;
\* value='Data science'
DashStart(m) ==
    /\ seed_n = m
    /\ df_global \in generate_survey_data(m)
    /\ options = {df_global.rows[k].Program_of_Study : k \in 1..Len(df_global.rows)}
    /\ program_filter = "Data science"
    /\ calls = 0
    /\ selected_program = ""
    /\ filtered_df = DataFrame(<<>>)
    /\ fig1 = NoFigure /\ fig2 = NoFigure /\ fig3 = NoFigure
    /\ live_stats = <<>>

DashIdle ==
    /\ seed_n = 0
    /\ df_global = DataFrame(<<>>)
    /\ options = {}
    /\ program_filter = "Data science"
    /\ calls = 0
    /\ selected_program = ""
    /\ filtered_df = DataFrame(<<>>)
    /\ fig1 = NoFigure /\ fig2 = NoFigure /\ fig3 = NoFigure
    /\ live_stats = <<>>

\* One call of the callback. On the fallback path filtered_df names the global frame
\* itself, so the column assignments of the scatter processing change df_global.
\* (An intermediate frame is bound with \E over a singleton, which evaluates it once.)
update_dashboard(sel) ==
    /\ calls < MaxRefresh
    /\ \E new_entry \in generate_survey_data(1) :
       \E appended \in {concat(df_global, new_entry)} :
       \E copy \in {boolean_index(appended, sel)} :
         LET alias == falls_back(copy)
             chosen == IF alias THEN appended ELSE copy
         IN  \E jx \in uniform(Len(chosen.rows)), jy \in uniform(Len(chosen.rows)) :
              \E projected \in {assign_numeric(chosen, jx, jy)} :
                LET stored == IF alias THEN projected ELSE appended
                IN  /\ df_global' = stored
                    /\ filtered_df' = projected
                    /\ fig1' = scatter(projected, sel)
                    /\ fig2' = bar(projected)
                    /\ fig3' = pie(projected)
                    /\ live_stats' = stats(stored, projected)
    /\ selected_program' = sel
    /\ calls' = calls + 1
    /\ UNCHANGED <<options, seed_n, gen_vars, conc_vars>>

\* dcc.Interval fires (and the first call on page load): the dropdown keeps its value
IntervalTick ==
    /\ update_dashboard(program_filter)
    /\ UNCHANGED program_filter

\* the user picks another option of the dropdown
FilterChange ==
    \E v \in options \ {program_filter} :
        /\ program_filter' = v
        /\ update_dashboard(v)

----------------------------------------------------------------------------
(* 4. The server: app.run(debug=True, use_reloader=False) serves each request on *)
(* a thread of its own, and update_dashboard takes no lock. Two requests in      *)
(* flight, the interval's and the dropdown's, run the callback with a step at    *)
(* every read and every rebinding of df_global; the statement of line 95, which  *)
(* reads df_global and then rebinds it, is two steps. The scatter processing of  *)
(* lines 101-105 is taken as one step.                                           *)

Requests == {"interval", "filter"}

ConcIdle ==
    /\ frames = <<>>
    /\ df_global_ref = 0
    /\ call = <<>>

StartCall(sel) ==
    [pc |-> "L94", selected_program |-> sel, new_entry |-> DataFrame(<<>>),
     appended |-> 0, filtered_df |-> <<>>, ret |-> <<>>]

\* the seed is frame 1; the interval's request carries the dropdown's initial value,
\* the other request the option the user picked
ConcStart(m) ==
    /\ seed_n = m
    /\ \E seed \in generate_survey_data(m) :
         /\ frames = <<seed>>
         /\ options = {seed.rows[k].Program_of_Study : k \in 1..Len(seed.rows)}
    /\ df_global_ref = 1
    /\ \E v \in options \ {"Data science"} :
         call = [t \in Requests |-> StartCall(IF t = "interval" THEN "Data science" ELSE v)]
    /\ df_global = DataFrame(<<>>)
    /\ program_filter = "Data science"
    /\ calls = 0
    /\ selected_program = ""
    /\ filtered_df = DataFrame(<<>>)
    /\ fig1 = NoFigure /\ fig2 = NoFigure /\ fig3 = NoFigure
    /\ live_stats = <<>>

ConcFrame == <<gen_vars, df_global, options, program_filter, calls, seed_n,
               selected_program, filtered_df, fig1, fig2, fig3, live_stats>>

\* new_entry = generate_survey_data(1), then the right-hand side of
\* df_global = pd.concat([df_global, new_entry], ignore_index=True)
Concat(t) ==
    /\ call[t].pc = "L94"
    /\ \E new_entry \in generate_survey_data(1) :
         /\ frames' = Append(frames, concat(frames[df_global_ref], new_entry))
         /\ call' = [call EXCEPT ![t].new_entry = new_entry,
                                 ![t].appended = Len(frames) + 1,
                                 ![t].pc = "L95"]
    /\ UNCHANGED <<df_global_ref, ConcFrame>>

\* the binding of df_global to the frame concat returned
Rebind(t) ==
    /\ call[t].pc = "L95"
    /\ df_global_ref' = call[t].appended
    /\ call' = [call EXCEPT ![t].pc = "L97"]
    /\ UNCHANGED <<frames, ConcFrame>>

\* filtered_df = df_global[df_global['Program_of_Study'] == selected_program].copy()
Filter(t) ==
    /\ call[t].pc = "L97"
    /\ call' = [call EXCEPT
          ![t].filtered_df =
              <<"copy", boolean_index(frames[df_global_ref], call[t].selected_program)>>,
          ![t].pc = "L98"]
    /\ UNCHANGED <<frames, df_global_ref, ConcFrame>>

\* if filtered_df.empty: filtered_df = df_global
Fallback(t) ==
    /\ call[t].pc = "L98"
    /\ call' = [call EXCEPT
          ![t].filtered_df = IF falls_back(call[t].filtered_df[2])
                             THEN <<"global", df_global_ref>> ELSE @,
          ![t].pc = "L101"]
    /\ UNCHANGED <<frames, df_global_ref, ConcFrame>>

\* the frame the local name filtered_df stands for
Local(t) ==
    IF call[t].filtered_df[1] = "global" THEN frames[call[t].filtered_df[2]]
    ELSE call[t].filtered_df[2]

\* the scatter processing: the columns are assigned on the frame filtered_df names
Project(t) ==
    /\ call[t].pc = "L101"
    /\ \E jx \in uniform(Len(Local(t).rows)), jy \in uniform(Len(Local(t).rows)) :
         IF call[t].filtered_df[1] = "global"
         THEN /\ frames' = [frames EXCEPT
                    ![call[t].filtered_df[2]] = assign_numeric(Local(t), jx, jy)]
              /\ call' = [call EXCEPT ![t].pc = "L107"]
         ELSE /\ frames' = frames
              /\ call' = [call EXCEPT
                    ![t].filtered_df = <<"copy", assign_numeric(Local(t), jx, jy)>>,
                    ![t].pc = "L107"]
    /\ UNCHANGED <<df_global_ref, ConcFrame>>

\* the three figures and the return
Return(t) ==
    /\ call[t].pc = "L107"
    /\ call' = [call EXCEPT
          ![t].ret = [fig1 |-> scatter(Local(t), call[t].selected_program),
                      fig2 |-> bar(Local(t)),
                      fig3 |-> pie(Local(t)),
                      live_stats |-> stats(frames[df_global_ref], Local(t)),
                      \* the records df_global held when its length was read
                      dataset |-> frames[df_global_ref].rows],
          ![t].pc = "done"]
    /\ UNCHANGED <<frames, df_global_ref, ConcFrame>>

----------------------------------------------------------------------------
(* Specifications *)

\* generate_survey_data as a function of n
InitGen == GenInit /\ DashIdle /\ ConcIdle
NextGen == GenLoop \/ GenReturn
SpecGen == InitGen /\ [][NextGen]_vars

\* the dashboard process
Init == GenIdle /\ ConcIdle /\ \E m \in 1..SeedLen : DashStart(m)
Next == IntervalTick \/ FilterChange
Spec == Init /\ [][Next]_vars

\* the callback run on an empty Dataset as well, the scenario of a refresh of an
\* empty Dataset (generate_survey_data(0) in place of the seed; the dropdown then
\* has no options)
InitScenario == GenIdle /\ ConcIdle /\ \E m \in 0..SeedLen : DashStart(m)
SpecScenario == InitScenario /\ [][Next]_vars

\* two requests served at once
InitConc == GenIdle /\ \E m \in 1..SeedLen : ConcStart(m)
NextConc ==
    \E t \in Requests :
        Concat(t) \/ Rebind(t) \/ Filter(t) \/ Fallback(t) \/ Project(t) \/ Return(t)
SpecConc == InitConc /\ [][NextConc]_vars

----------------------------------------------------------------------------
(* Properties of the generator, under SpecGen *)

HeavyImpacts == {"Somewhat Negative", "Strongly Negative"}
HeavyStudy == {"Less than 2 hours", "2-4 hours"}
HeavyDistractions == {"Often", "Always"}
LightImpacts == {"Strongly Positive", "Somewhat Positive", "Neutral"}
LightStudy == {"5-7 hours", "8+ hours"}
LightDistractions == {"Never", "Rarely"}
AverageImpacts == {"Neutral", "Somewhat Negative"}
AverageStudy == {"2-4 hours", "5-7 hours"}
AverageDistractions == {"Sometimes", "Often"}

FromTable(r, D, I, S) ==
    /\ r.Distraction_Frequency \in D
    /\ r.Productivity_Impact \in I
    /\ r.Daily_Study_Work_Hours \in S

\* every record built so far, returned, or stored in the Dataset
Records ==
    Range(new_data) \cup Range(df_global.rows)
    \cup (IF gen_ret = <<>> THEN {} ELSE Range(gen_ret[1].rows))

\* C7: in every generated record, a distraction frequency of Always comes with a
\* productivity impact of Somewhat or Strongly Negative and with study hours of
\* less than 2 or 2-4 hours, never with a light-regime value.
C7_AlwaysOnlyHeavy ==
    \A r \in Records :
        r.Distraction_Frequency = "Always" =>
            /\ r.Productivity_Impact \in HeavyImpacts
            /\ r.Daily_Study_Work_Hours \in HeavyStudy
            /\ r.Productivity_Impact \notin LightImpacts
            /\ r.Daily_Study_Work_Hours \notin LightStudy

C7_Witness ==
    /\ gen_pc = "done"
    /\ \E r \in Range(gen_ret[1].rows) :
          r.Distraction_Frequency = "Always" /\ r.Daily_Study_Work_Hours = "2-4 hours"

ProgramDomain == {"Data science", "Fashion design", "Arts and Interior Architecture",
                  "Psychology & Counselling"}
UsageDomain == {"Less than 1 hour", "1-2 hours", "3-4 hours", "5-6 hours", "More than 6 hours"}
StudyDomain == {"Less than 2 hours", "2-4 hours", "5-7 hours", "8+ hours"}
ImpactDomain == {"Strongly Positive", "Somewhat Positive", "Neutral", "Somewhat Negative",
                 "Strongly Negative"}

\* C8: generate(n) returns exactly n records (none for n = 0), and every field of
\* every record is a non-empty member of its domain: 4 programs, 5 usage buckets,
\* 4 study buckets, 5 distraction levels, 5 impact levels.
C8_ExactlyN ==
    gen_pc = "done" =>
        /\ Len(gen_ret[1].rows) = n
        /\ \A r \in Range(gen_ret[1].rows) :
              /\ r.Program_of_Study \in ProgramDomain \ {""}
              /\ r.Average_Daily_SM_Usage \in UsageDomain \ {""}
              /\ r.Daily_Study_Work_Hours \in StudyDomain \ {""}
              /\ r.Distraction_Frequency \in DistractionLevels \ {""}
              /\ r.Productivity_Impact \in ImpactDomain \ {""}
        /\ Cardinality(ProgramDomain) = 4 /\ Cardinality(UsageDomain) = 5
        /\ Cardinality(StudyDomain) = 4 /\ Cardinality(DistractionLevels) = 5
        /\ Cardinality(ImpactDomain) = 5

C8_Witness ==
    /\ gen_pc = "done"
    /\ n = MaxN
    /\ Len(gen_ret[1].rows) = MaxN
    /\ gen_ret[1].rows[MaxN].Productivity_Impact = "Strongly Positive"

\* C9: the record built from latent score s has the usage bucket of s under the
\* thresholds 2/4/6/8 and takes its distraction, impact and study hours from the
\* table of the one regime of s: Heavy for s > 6, Light for s < 3, Average for
\* 3 <= s <= 6. The lowest usage bucket comes only with Light values, the highest
\* only with Heavy values.
C9_OneLatentScore ==
    /\ new_data # <<>> =>
         LET s == hidden_sm_score[1]
             r == new_data[Len(new_data)]
         IN  /\ (s < 2) = (r.Average_Daily_SM_Usage = "Less than 1 hour")
             /\ (2 <= s /\ s < 4) = (r.Average_Daily_SM_Usage = "1-2 hours")
             /\ (4 <= s /\ s < 6) = (r.Average_Daily_SM_Usage = "3-4 hours")
             /\ (6 <= s /\ s < 8) = (r.Average_Daily_SM_Usage = "5-6 hours")
             /\ (s >= 8) = (r.Average_Daily_SM_Usage = "More than 6 hours")
             /\ s > 6 => FromTable(r, HeavyDistractions, HeavyImpacts, HeavyStudy)
             /\ s < 3 => FromTable(r, LightDistractions, LightImpacts, LightStudy)
             /\ (3 <= s /\ s <= 6) =>
                    FromTable(r, AverageDistractions, AverageImpacts, AverageStudy)
    /\ \A r \in Records :
         /\ r.Average_Daily_SM_Usage = "Less than 1 hour" =>
                FromTable(r, LightDistractions, LightImpacts, LightStudy)
         /\ r.Average_Daily_SM_Usage = "More than 6 hours" =>
                FromTable(r, HeavyDistractions, HeavyImpacts, HeavyStudy)

\* a record drawn at the boundary score 6: usage 5-6 hours, Average values
C9_Witness ==
    /\ new_data # <<>>
    /\ hidden_sm_score = <<6>>
    /\ new_data[Len(new_data)].Average_Daily_SM_Usage = "5-6 hours"
    /\ new_data[Len(new_data)].Distraction_Frequency = "Sometimes"

----------------------------------------------------------------------------
(* Properties of the dashboard, under Spec and SpecScenario *)

\* the stored records
Dataset == df_global.rows

\* the records whose program equals the argument of the last call
Matching ==
    LET Test(r) == r.Program_of_Study = selected_program
    IN  SelectSeq(Dataset, Test)

\* the records the charts are to be built from
Used == IF Matching = <<>> THEN Dataset ELSE Matching

CountIn(seq, col, v) == Cardinality({k \in 1..Len(seq) : seq[k][col] = v})

ValuesIn(seq, col) == {seq[k][col] : k \in 1..Len(seq)}

RECURSIVE SumOver(_, _)
SumOver(c, D) ==
    IF D = {} THEN 0
    ELSE LET d == CHOOSE x \in D : TRUE IN c[d] + SumOver(c, D \ {d})

DigitValue(ch) ==
    CASE ch = "0" -> 0 [] ch = "1" -> 1 [] ch = "2" -> 2 [] ch = "3" -> 3 [] ch = "4" -> 4
      [] ch = "5" -> 5 [] ch = "6" -> 6 [] ch = "7" -> 7 [] ch = "8" -> 8 [] ch = "9" -> 9

RECURSIVE ParseInt(_)
ParseInt(ds) ==
    IF Len(ds) = 1 THEN DigitValue(ds[1])
    ELSE 10 * ParseInt(SubSeq(ds, 1, Len(ds) - 1)) + DigitValue(ds[Len(ds)])

\* C1: every refresh appends exactly one record at the end of Dataset: the length
\* grows by 1 and the earlier records stay, in order and with their five
\* categorical values, as a prefix; after k refreshes the length is the seed's plus k.
C1_AppendsOne ==
    /\ [][/\ Len(df_global'.rows) = Len(df_global.rows) + 1
          /\ SubSeq(df_global'.rows, 1, Len(df_global.rows)) = df_global.rows]_vars
    /\ [](Len(Dataset) = seed_n + calls)

C1_Witness ==
    /\ calls = 2
    /\ Len(Dataset) = seed_n + 2
    /\ Dataset[1] # Dataset[Len(Dataset)]

\* C2: the summary returned by a refresh is "Total Responses: N" with N the length
\* of the whole Dataset after the append of that call.
C2_SummaryCountsAll ==
    calls > 0 =>
        /\ Head(live_stats) = "Total Responses: "
        /\ ParseInt(Tail(live_stats)) = Len(Dataset)

\* a refresh whose filtered set is smaller than the Dataset
C2_Witness ==
    /\ calls > 0
    /\ Len(filtered_df.rows) < Len(Dataset)
    /\ Len(filtered_df.rows) > 0
    /\ ParseInt(Tail(live_stats)) = seed_n + calls

\* C3: when the selected program matches no record of Dataset the charts are built
\* from the whole Dataset, otherwise from exactly the matching records.
C3_FallbackLaw ==
    calls > 0 =>
        /\ filtered_df.rows = Used
        /\ Len(fig1.points) = Len(Used)
        /\ \A k \in 1..Len(Used) : fig1.points[k].color = Used[k].Distraction_Frequency
        /\ DOMAIN fig2.counts = ValuesIn(Used, "Distraction_Frequency")
        /\ \A v \in DOMAIN fig2.counts : fig2.counts[v] = CountIn(Used, "Distraction_Frequency", v)
        /\ DOMAIN fig3.slices = ValuesIn(Used, "Productivity_Impact")
        /\ \A v \in DOMAIN fig3.slices : fig3.slices[v] = CountIn(Used, "Productivity_Impact", v)

\* a refresh that took the fallback
C3_Witness ==
    /\ calls > 0
    /\ Matching = <<>>
    /\ Len(Dataset) >= 2
    /\ Len(fig1.points) = Len(Dataset)

\* C5: the numeric projection is not stored: after any refresh the Dataset holds
\* only the five categorical columns and no projected or jittered value.
C5_ProjectionNotStored ==
    /\ df_global.columns \subseteq CategoricalColumns
    /\ df_global.SM_Numeric = <<>>
    /\ df_global.Study_Numeric = <<>>

Abs(x) == IF x < 0 THEN -x ELSE x

\* C6: every plotted point of every refresh lies within 0.3 of the midpoints mapped
\* from its record's stored usage and study hours, on the filtered and on the
\* fallback path: jitter never accumulates from one refresh to the next.
C6_JitterWithinBounds ==
    calls > 0 =>
        /\ Len(fig1.points) = Len(Used)
        /\ \A k \in 1..Len(Used) :
              /\ Len(fig1.points[k].x) = 1
              /\ Len(fig1.points[k].y) = 1
              /\ Abs(fig1.points[k].x[1] - sm_map[Used[k].Average_Daily_SM_Usage]) <= 3
              /\ Abs(fig1.points[k].y[1] - study_map[Used[k].Daily_Study_Work_Hours]) <= 3

\* the second refresh filters, after a first one that fell back and left its
\* coordinates in the stored frame, and plots a record that carries them
C6_Witness ==
    /\ calls = 2
    /\ "SM_Numeric" \in df_global.columns
    /\ df_global.SM_Numeric[1] # <<>>
    /\ df_global.SM_Numeric[Len(Dataset)] = <<>>
    /\ filtered_df.rows[1] = Dataset[1]
    /\ Dataset[1].Program_of_Study = selected_program

\* C10: the bar output has one entry for each distraction level present in the
\* records used for the charts, its count at least 1 and equal to the number of
\* those records at that level; the counts sum to the number of records used. From
\* an empty Dataset one refresh gives length 1, one bar of count 1 and the summary
\* "Total Responses: 1".
C10_BarCounts ==
    calls > 0 =>
        /\ DOMAIN fig2.counts = ValuesIn(Used, "Distraction_Frequency")
        /\ \A v \in DOMAIN fig2.counts :
              /\ fig2.counts[v] >= 1
              /\ fig2.counts[v] = CountIn(Used, "Distraction_Frequency", v)
        /\ SumOver(fig2.counts, DOMAIN fig2.counts) = Len(Used)
        /\ (seed_n = 0 /\ calls = 1) =>
              /\ Len(Dataset) = 1
              /\ Cardinality(DOMAIN fig2.counts) = 1
              /\ \A v \in DOMAIN fig2.counts : fig2.counts[v] = 1
              /\ live_stats = <<"Total Responses: ", "1">>

\* the first refresh of an empty Dataset, the new record of another program
C10_Witness ==
    /\ seed_n = 0
    /\ calls = 1
    /\ selected_program = "Data science"
    /\ Len(Dataset) = 1
    /\ Dataset[1].Program_of_Study # "Data science"
    /\ Cardinality(DOMAIN fig2.counts) = 1

----------------------------------------------------------------------------
(* Properties of two requests served at once, under SpecConc *)

\* C4: the refreshes of the timer and of the filter change are serialized: once
\* both have returned no append is lost (the Dataset is 2 records longer than the
\* seed), and each call built its outputs from records that hold the one it
\* appended.
C4_Serialized ==
    (\A t \in Requests : call[t].pc = "done") =>
        /\ Len(frames[df_global_ref].rows) = seed_n + 2
        /\ \A t \in Requests :
              \E k \in 1..Len(call[t].ret.dataset) :
                  call[t].ret.dataset[k] = call[t].new_entry.rows[1]

====
